---------------------------- MODULE Spec2Model ----------------------------
(***************************************************************************)
(* SubgraphManager of indexer-common/src/indexer-management/subgraphs.ts:  *)
(* createSubgraph, deploy (with graft-base resolution and indexing-rule    *)
(* synchronisation), reassign and the composite ensure workflow.           *)
(*                                                                         *)
(* Every ensure invocation is a frame on the stack of its top-level        *)
(* caller; one action is one step of the top frame from one await to the   *)
(* next.  The answers of the node-management endpoint and of the rule      *)
(* store are inputs drawn from small sets.  log records, per top-level     *)
(* call, the requests sent and how each function invocation ended.         *)
(* remote is the state of the node-management endpoint: the names          *)
(* registered, the deployments present and the node each is assigned to.   *)
(***************************************************************************)
EXTENDS Integers, Sequences, FiniteSets

VARIABLES indexNodeIDs, autoGraftResolverDepth, rules, stack, log, result, calls,
          remote

vars ==
  <<indexNodeIDs, autoGraftResolverDepth, rules, stack, log, result, calls, remote>>

---------------------------------------------------------------------------
\* Bounds of the model

\* largest autoGraftResolverDepth the constructor is given
MaxDepth == 2

\* ensure invocations one top-level call may start
MaxInv == 4

\* top-level ensure calls one caller makes
MaxCalls == 2

---------------------------------------------------------------------------
\* Strings are sequences of one-character strings

\* graftBase: the signature searched for in the deploy error message
GraftSignature ==
  << "s", "u", "b", "g", "r", "a", "p", "h", " ", "v", "a", "l", "i", "d",
     "a", "t", "i", "o", "n", " ", "e", "r", "r", "o", "r", ":", " ", "[",
     "t", "h", "e", " ", "g", "r", "a", "f", "t", " ", "b", "a", "s", "e",
     " ", "i", "s", " ", "i", "n", "v", "a", "l", "i", "d", ":", " ", "d",
     "e", "p", "l", "o", "y", "m", "e", "n", "t", " ", "n", "o", "t", " ",
     "f", "o", "u", "n", "d" >>

\* createSubgraph: the text that marks a name as already registered
AlreadyExists ==
  << "a", "l", "r", "e", "a", "d", "y", " ", "e", "x", "i", "s", "t", "s" >>

\* reassign: the text that marks an assignment as already in place
Unchanged ==
  << "u", "n", "c", "h", "a", "n", "g", "e", "d" >>

\* graftBase: the prefix of the token cut out of the message
Qm ==
  << "Q", "m" >>

\* Message texts of the remote answers the model draws from
TxtCreateExists ==
  << "s", "u", "b", "g", "r", "a", "p", "h", " ", "n", "a", "m", "e", " ",
     "a", "l", "r", "e", "a", "d", "y", " ", "e", "x", "i", "s", "t", "s" >>

TxtCreateOther ==
  << "s", "t", "o", "r", "e", " ", "e", "r", "r", "o", "r" >>

TxtDeployOther ==
  << "s", "u", "b", "g", "r", "a", "p", "h", " ", "r", "e", "s", "o", "l",
     "v", "e", " ", "e", "r", "r", "o", "r" >>

TxtReassignUnchanged ==
  << "d", "e", "p", "l", "o", "y", "m", "e", "n", "t", " ", "a", "s", "s",
     "i", "g", "n", "m", "e", "n", "t", " ", "u", "n", "c", "h", "a", "n",
     "g", "e", "d" >>

TxtReassignOther ==
  << "d", "e", "p", "l", "o", "y", "m", "e", "n", "t", " ", "n", "o", "t",
     " ", "f", "o", "u", "n", "d" >>

TxtTimeout ==
  << "P", "r", "o", "m", "i", "s", "e", " ", "t", "i", "m", "e", "d", " ",
     "o", "u", "t", " ", "a", "f", "t", "e", "r", " ", "1", "2", "0", "0",
     "0", "0", " ", "m", "i", "l", "l", "i", "s", "e", "c", "o", "n", "d",
     "s" >>

TxtStore ==
  << "d", "a", "t", "a", "b", "a", "s", "e", " ", "u", "n", "a", "v", "a",
     "i", "l", "a", "b", "l", "e" >>

TxtInvalidId ==
  << "I", "n", "v", "a", "l", "i", "d", " ", "s", "u", "b", "g", "r", "a",
     "p", "h", " ", "d", "e", "p", "l", "o", "y", "m", "e", "n", "t", " ",
     "I", "D" >>

\* length of the token graftBase cuts out of the message
TokenLen == 46

Rep(c, n) == [i \in 1..n |-> c]

\* String.prototype.includes
Includes(s, pat) ==
  \E i \in 0..(Len(s) - Len(pat)) : SubSeq(s, i + 1, i + Len(pat)) = pat

\* String.prototype.indexOf: 0-based position of the first match, -1 if none
IndexOf(s, pat) ==
  IF Includes(s, pat)
  THEN CHOOSE i \in 0..(Len(s) - Len(pat)) :
         /\ SubSeq(s, i + 1, i + Len(pat)) = pat
         /\ \A j \in 0..(i - 1) : SubSeq(s, j + 1, j + Len(pat)) # pat
  ELSE -1

Clamp(x, len) == IF x < 0 THEN 0 ELSE IF x > len THEN len ELSE x

\* String.prototype.substring: both ends clamped to 0..length, swapped if
\* start > end, characters start..end-1 (0-based)
Substring(s, start, end) ==
  LET a == Clamp(start, Len(s))
      b == Clamp(end, Len(s))
      lo == IF a <= b THEN a ELSE b
      hi == IF a <= b THEN b ELSE a
  IN SubSeq(s, lo + 1, hi)

---------------------------------------------------------------------------
\* Deployments, nodes, names

Deployments == {"D1", "D2"}

\* deployment.ipfsHash
ipfsHash(d) ==
  IF d = "D1" THEN Qm \o Rep("a", 44) ELSE Qm \o Rep("b", 44)

Base58 ==
  {"1", "2", "3", "4", "5", "6", "7", "8", "9",
   "a", "b", "c", "d", "e", "f", "g", "h", "i", "j", "k",
   "m", "n", "o", "p", "q", "r", "s", "t", "u", "v", "w", "x", "y", "z",
   "A", "B", "C", "D", "E", "F", "G", "H",
   "J", "K", "L", "M", "N", "P", "Q", "R", "S", "T", "U", "V", "W", "X",
   "Y", "Z"}

\* the IPFS-hash form SubgraphDeploymentID accepts: Qm and 44 base58 characters
IsIpfsHash(s) ==
  /\ Len(s) = TokenLen
  /\ SubSeq(s, 1, 2) = Qm
  /\ \A i \in 3..Len(s) : s[i] \in Base58

\* JavaScript undefined, as a node id and as an absent argument
Undefined == "undefined"

Names == {"n1"}

\* the pools of index nodes the constructor is given
Pools == {<< >>, <<"nodeA">>, <<"nodeA", "nodeB">>}

\* the indexNode argument of a top-level ensure call
ExplicitNodes == {Undefined, "nodeA", "nodeC"}

---------------------------------------------------------------------------
\* Answers of the node-management endpoint and of the rule store

Ok == "ok"

CreateErrors == {"E_exists", "E_create"}
DeployRemoteErrors ==
  {"E_graft_D1", "E_graft_D2", "E_graft_bad", "E_graft_trunc", "E_graft_char",
   "E_deploy"}
DeployRejections == {"E_timeout"}
ReassignErrors == {"E_unchanged", "E_reassign"}
StoreErrors == {"E_store"}

CreateResponses == {Ok} \cup CreateErrors
DeployResponses == {Ok} \cup DeployRemoteErrors \cup DeployRejections
ReassignResponses == {Ok} \cup ReassignErrors
StoreResponses == {Ok} \cup StoreErrors

\* error.message of a raw (not yet wrapped) error
Message(e) ==
  CASE e = "E_exists" -> TxtCreateExists
    [] e = "E_create" -> TxtCreateOther
    [] e = "E_graft_D1" -> GraftSignature \o <<":", " ">> \o ipfsHash("D1") \o <<"]">>
    [] e = "E_graft_D2" -> GraftSignature \o <<":", " ">> \o ipfsHash("D2") \o <<"]">>
    [] e = "E_graft_bad" -> GraftSignature \o <<"]">>
    [] e = "E_graft_trunc" -> GraftSignature \o <<":", " ">> \o Qm \o Rep("b", 20)
    [] e = "E_graft_char" -> GraftSignature \o <<":", " ">> \o Qm \o Rep("0", 44) \o <<"]">>
    [] e = "E_deploy" -> TxtDeployOther
    [] e = "E_timeout" -> TxtTimeout
    [] e = "E_unchanged" -> TxtReassignUnchanged
    [] e = "E_reassign" -> TxtReassignOther
    [] e = "E_store" -> TxtStore
    [] OTHER -> TxtInvalidId

\* An error is the chain of its codes, outermost first, ending in the raw
\* error it was built from: indexerError(code, cause) puts code in front.
indexerError(code, cause) == <<code>> \o cause

Returns == [throws |-> FALSE, err |-> << >>]
Throws(error) == [throws |-> TRUE, err |-> error]

---------------------------------------------------------------------------
\* The functions of SubgraphManager

\* new SubgraphDeploymentID(s): the identity whose hash is s; throws when s
\* is not a deployment hash
NewSubgraphDeploymentID(s) ==
  IF IsIpfsHash(s) /\ \E d \in Deployments : ipfsHash(d) = s
  THEN [kind |-> "base", base |-> CHOOSE d \in Deployments : ipfsHash(d) = s]
  ELSE [kind |-> "throw", base |-> Undefined]

\* graftBase with the depth test off by one
graftBaseOffByOne(e, depth, maxDepth) ==
  LET message == Message(e) IN
  IF Includes(message, GraftSignature)
  THEN LET graftBaseQm == Substring(message, IndexOf(message, Qm),
                                    IndexOf(message, Qm) + TokenLen)
       IN IF depth > maxDepth
          THEN [kind |-> "undefined", base |-> Undefined]
          ELSE NewSubgraphDeploymentID(graftBaseQm)
  ELSE [kind |-> "undefined", base |-> Undefined]

\* graftBase cutting a token one character short
graftBaseShortToken(e, depth, maxDepth) ==
  LET message == Message(e) IN
  IF Includes(message, GraftSignature)
  THEN LET graftBaseQm == Substring(message, IndexOf(message, Qm),
                                    IndexOf(message, Qm) + TokenLen - 1)
       IN IF depth >= maxDepth
          THEN [kind |-> "undefined", base |-> Undefined]
          ELSE NewSubgraphDeploymentID(graftBaseQm)
  ELSE [kind |-> "undefined", base |-> Undefined]

\* graftBase(logger, err, depth): the dependency named by a graft-base
\* failure, or undefined
graftBase(e, depth, maxDepth) ==
  LET message == Message(e) IN
  IF Includes(message, GraftSignature)
  THEN LET graftBaseQm == Substring(message, IndexOf(message, Qm),
                                    IndexOf(message, Qm) + TokenLen)
       IN IF depth >= maxDepth
          THEN [kind |-> "undefined", base |-> Undefined]
          ELSE NewSubgraphDeploymentID(graftBaseQm)
  ELSE [kind |-> "undefined", base |-> Undefined]

\* graftBase for every error answer, depth and depth limit of the model
graftBaseOf ==
  [e \in DeployRemoteErrors |->
     [depth \in 0..MaxInv |->
        [maxDepth \in 0..MaxDepth |-> graftBase(e, depth, maxDepth)]]]

\* catch block of createSubgraph: logs when the name exists, then rethrows
createSubgraphCatch(error) ==
  IF Includes(Message(Head(error)), AlreadyExists)
  THEN Throws(error)
  ELSE Throws(error)

\* createSubgraph, given the answer to subgraph_create
createSubgraph(response) ==
  IF response # Ok THEN createSubgraphCatch(<<response>>) ELSE Returns

\* a catch block of deploy that reports the failure under another code
deployCatchAsRetry(error) == indexerError("IE069", error)

\* catch block of deploy
deployCatch(error) == indexerError("IE026", error)

\* a catch block of reassign that swallows the unchanged answer
reassignCatchSwallow(error) ==
  IF Includes(Message(Head(error)), Unchanged)
  THEN Returns
  ELSE Throws(indexerError("IE028", error))

\* catch block of reassign
reassignCatch(error) ==
  IF Includes(Message(Head(error)), Unchanged)
  THEN Throws(error)
  ELSE Throws(indexerError("IE028", error))

\* reassign, given the answer to subgraph_reassign
reassign(response) ==
  IF response # Ok THEN reassignCatch(<<response>>) ELSE Returns

\* catch block of ensure: builds the IE020 error for the log, throws error
ensureCatch(error) == error

\* if (indexNode): undefined and the empty string are falsy
Truthy(s) == s # Undefined /\ s # ""

\* Math.floor(Math.random() * length)
RandomIndex(length) == IF length = 0 THEN {0} ELSE 0..(length - 1)

\* arr[i], 0-based; undefined outside the array
ArrayGet(arr, i) == IF i + 1 \in DOMAIN arr THEN arr[i + 1] ELSE Undefined

\* node selection that falls back to the pool for a node outside it
selectNodePoolOnly(indexNode, pool, k) ==
  IF Truthy(indexNode) /\ \E i \in DOMAIN pool : pool[i] = indexNode
  THEN indexNode
  ELSE ArrayGet(pool, k)

\* node selection at the head of deploy and of reassign
selectNode(indexNode, pool, k) ==
  IF Truthy(indexNode) THEN indexNode ELSE ArrayGet(pool, k)

\* A SubgraphDeploymentID object: the identity and which object it is
DeploymentObject(ref, d) == [ref |-> ref, id |-> d]

\* fetchIndexingRules(models, false).map(rule => new SubgraphDeploymentID(..)):
\* one new object per stored rule
indexingRules(store) ==
  {DeploymentObject("fetched", r.identifier) : r \in store}

\* Array.prototype.includes on objects: the same object, not an equal one
ArrayIncludes(arr, obj) == \E x \in arr : x = obj

\* a deploy that looks the rule up by the deployment's identifier
needsRuleByIdentifier(store, d) == ~\E r \in store : r.identifier = d

\* if (!indexingRules.includes(deployment)): whether deploy writes the rule
needsRule(store, d) ==
  ~ArrayIncludes(indexingRules(store), DeploymentObject("argument", d))

offchainIndexingRule(d) ==
  [identifier |-> d, identifierType |-> "deployment",
   decisionBasis |-> "offchain"]

\* upsertIndexingRule: the record stored under rule.identifier takes the
\* fields of rule; a record is created when there is none
upsertIndexingRule(store, rule) ==
  IF \E r \in store : r.identifier = rule.identifier
  THEN {IF r.identifier = rule.identifier THEN rule ELSE r : r \in store}
  ELSE store \cup {rule}

---------------------------------------------------------------------------
\* State

Callers == {1}

\* decisionBasis of a rule the store holds before the first call
InitialRules ==
  {{}, {[identifier |-> "D1", identifierType |-> "deployment",
         decisionBasis |-> "never"]}}

Idle == [state |-> "idle", err |-> << >>]
Running == [state |-> "running", err |-> << >>]
Returned == [state |-> "returned", err |-> << >>]
Thrown(error) == [state |-> "thrown", err |-> error]

\* one ensure invocation together with the deploy call it makes
Frame(inv, parent, role, name, d, indexNode, depth) ==
  [inv |-> inv, parent |-> parent, role |-> role, name |-> name,
   deployment |-> d, indexNode |-> indexNode, depth |-> depth,
   pc |-> "create", targetNode |-> Undefined, respErr |-> Ok]

\* an entry of log: a request sent by, or the end of a function of, frame f
Event(ev, f, node, resp, err) ==
  [ev |-> ev, inv |-> f.inv, parent |-> f.parent, role |-> f.role,
   name |-> f.name,
   depth |-> f.depth, dep |-> f.deployment, explicit |-> f.indexNode,
   node |-> node, resp |-> resp, err |-> err, info |-> Undefined]

Top(st) == st[Len(st)]
Front(st) == SubSeq(st, 1, Len(st) - 1)
SetTop(st, f) == [st EXCEPT ![Len(st)] = f]

\* number of the next ensure invocation of the running top-level call
NextInv(lg) == 1 + Cardinality({i \in DOMAIN lg : lg[i].ev = "ensure"})

\* the node-management endpoint with nothing registered or deployed
EmptyRemote ==
  [names |-> {}, deployed |-> {}, node |-> [d \in Deployments |-> Undefined]]

Init ==
  /\ remote = EmptyRemote
  /\ indexNodeIDs \in Pools
  /\ autoGraftResolverDepth \in 0..MaxDepth
  /\ rules \in InitialRules
  /\ stack = [c \in Callers |-> << >>]
  /\ log = [c \in Callers |-> << >>]
  /\ result = [c \in Callers |-> Idle]
  /\ calls = [c \in Callers |-> 0]

\* deploy line 121: this.ensure(logger, models, name, baseDeployment,
\* targetNode, depth + 1), called by the deploy of frame f
baseFrame(f, inv, base, targetNode) ==
  Frame(inv, f.inv, "base", f.name, base, targetNode, f.depth + 1)

\* a retry one level deeper than the failed deploy
retryFrameDeeper(p, inv) ==
  Frame(inv, p.inv, "retry", p.name, p.deployment, p.targetNode, p.depth + 1)

\* deploy line 125: this.ensure(logger, models, name, deployment, targetNode,
\* depth), called by the deploy of frame p
retryFrame(p, inv) ==
  Frame(inv, p.inv, "retry", p.name, p.deployment, p.targetNode, p.depth)

---------------------------------------------------------------------------
\* How a throw and a return travel through the frames

RECURSIVE EnsureThrowEvents(_, _)
\* the try block of the top frame's ensure threw error: ensure rethrows, the
\* deploy of the frame below catches and rethrows, and so on down the stack
EnsureThrowEvents(st, error) ==
  LET thrown == ensureCatch(error) IN
  <<Event("throw_ensure", Top(st), Undefined, Ok, thrown)>> \o
  (IF Len(st) = 1
   THEN << >>
   ELSE LET below == Front(st) IN
        <<Event("throw_deploy", Top(below), Undefined, Ok, deployCatch(thrown))>>
        \o EnsureThrowEvents(below, deployCatch(thrown)))

RECURSIVE FinalError(_, _)
\* the error the top-level caller receives
FinalError(st, error) ==
  IF Len(st) = 1
  THEN ensureCatch(error)
  ELSE FinalError(Front(st), deployCatch(ensureCatch(error)))

\* the try block of the top frame's ensure throws error, after events evs
ThrowInEnsure(c, evs, error) ==
  /\ log' = [log EXCEPT ![c] = @ \o evs \o EnsureThrowEvents(stack[c], error)]
  /\ stack' = [stack EXCEPT ![c] = << >>]
  /\ result' = [result EXCEPT ![c] = Thrown(FinalError(stack[c], error))]

\* a deploy whose catch block logs the error and does not rethrow it
ThrowInDeploySwallow(c, evs, error) ==
  /\ log' = [log EXCEPT ![c] =
               @ \o evs \o <<Event("return_deploy", Top(stack[c]), Undefined, Ok, << >>)>>]
  /\ stack' = [stack EXCEPT ![c] = SetTop(@, [Top(@) EXCEPT !.pc = "reassign"])]
  /\ UNCHANGED result

\* the deploy of the top frame throws error from inside its try block
ThrowInDeploy(c, evs, error) ==
  ThrowInEnsure(c,
    evs \o <<Event("throw_deploy", Top(stack[c]), Undefined, Ok, deployCatch(error))>>,
    deployCatch(error))

\* the top frame's ensure returns, after events evs
ReturnFromEnsure(c, evs) ==
  LET st == stack[c]
      f == Top(st)
      ret == evs \o <<Event("return_ensure", f, Undefined, Ok, << >>)>>
  IN
  IF Len(st) = 1
  THEN /\ log' = [log EXCEPT ![c] = @ \o ret]
       /\ stack' = [stack EXCEPT ![c] = << >>]
       /\ result' = [result EXCEPT ![c] = Returned]
  ELSE LET p == st[Len(st) - 1] IN
       IF p.pc = "graftEnsure"
       THEN \* deploy line 125: ensure the original deployment again
            LET child == retryFrame(p, NextInv(log[c]))
            IN /\ NextInv(log[c]) <= MaxInv
               /\ log' = [log EXCEPT ![c] =
                            @ \o ret \o <<Event("ensure", child, Undefined, Ok, << >>)>>]
               /\ stack' = [stack EXCEPT ![c] =
                              Front(Front(st)) \o
                              <<[p EXCEPT !.pc = "retryEnsure"], child>>]
               /\ UNCHANGED result
       ELSE \* deploy line 127: throw IE069, inside deploy's try block
            LET below == Front(st)
                error == deployCatch(indexerError("IE069", <<p.respErr>>))
            IN /\ log' = [log EXCEPT ![c] =
                            @ \o ret \o
                            <<Event("throw_deploy", p, Undefined, Ok, error)>> \o
                            EnsureThrowEvents(below, error)]
               /\ stack' = [stack EXCEPT ![c] = << >>]
               /\ result' = [result EXCEPT ![c] = Thrown(FinalError(below, error))]

---------------------------------------------------------------------------
\* Actions

Config == <<indexNodeIDs, autoGraftResolverDepth>>

\* a caller invokes ensure(logger, models, name, deployment, indexNode)
Call(c, name, d, indexNode) ==
  /\ stack[c] = << >>
  /\ calls[c] < MaxCalls
  /\ LET f == Frame(1, 0, "top", name, d, indexNode, 0) IN
       /\ stack' = [stack EXCEPT ![c] = <<f>>]
       /\ log' = [log EXCEPT ![c] = <<Event("ensure", f, Undefined, Ok, << >>)>>]
  /\ result' = [result EXCEPT ![c] = Running]
  /\ calls' = [calls EXCEPT ![c] = @ + 1]
  /\ UNCHANGED <<Config, rules>>

\* ensure line 264: createSubgraph sends subgraph_create and gets response
CreateStep(c, response) ==
  /\ stack[c] # << >>
  /\ Top(stack[c]).pc = "create"
  /\ LET f == Top(stack[c])
         sent == Event("subgraph_create", f, Undefined, response, << >>)
         out == createSubgraph(response)
     IN IF out.throws
        THEN ThrowInEnsure(c,
               <<sent, Event("throw_createSubgraph", f, Undefined, response, out.err)>>,
               out.err)
        ELSE /\ log' = [log EXCEPT ![c] =
                          @ \o <<sent, Event("return_createSubgraph", f, Undefined,
                                              response, << >>)>>]
             /\ stack' = [stack EXCEPT ![c] = SetTop(@, [f EXCEPT !.pc = "deploy"])]
             /\ UNCHANGED result
  /\ UNCHANGED <<Config, rules, calls>>

\* ensure line 265, deploy lines 84-131: deploy selects the node (k is the
\* random index), sends subgraph_deploy and gets response, a rejection or
\* the timeout
DeployStep(c, k, response) ==
  /\ stack[c] # << >>
  /\ Top(stack[c]).pc = "deploy"
  /\ LET f == Top(stack[c])
         targetNode == selectNode(f.indexNode, indexNodeIDs, k)
         sent == Event("subgraph_deploy", f, targetNode, response, << >>)
     IN
     IF response \in DeployRejections
     THEN ThrowInDeploy(c, <<sent>>, <<response>>)
     ELSE IF response = Ok
     THEN /\ log' = [log EXCEPT ![c] = @ \o <<sent>>]
          /\ stack' = [stack EXCEPT ![c] =
                         SetTop(@, [f EXCEPT !.pc = "fetch", !.targetNode = targetNode])]
          /\ UNCHANGED result
     ELSE LET baseDeployment == graftBaseOf[response][f.depth][autoGraftResolverDepth] IN
          IF baseDeployment.kind = "base"
          THEN LET child == baseFrame(f, NextInv(log[c]), baseDeployment.base,
                                      targetNode)
               IN /\ NextInv(log[c]) <= MaxInv
                  /\ log' = [log EXCEPT ![c] =
                               @ \o <<sent, Event("ensure", child, Undefined, Ok, << >>)>>]
                  /\ stack' = [stack EXCEPT ![c] =
                                 SetTop(@, [f EXCEPT !.pc = "graftEnsure",
                                                     !.targetNode = targetNode,
                                                     !.respErr = response])
                                 \o <<child>>]
                  /\ UNCHANGED result
          ELSE IF baseDeployment.kind = "throw"
          THEN ThrowInDeploy(c, <<sent>>, <<"E_invalid_id">>)
          ELSE ThrowInDeploy(c, <<sent>>, indexerError("IE026", <<response>>))
  /\ UNCHANGED <<Config, rules, calls>>

\* deploy lines 139-142: fetchIndexingRules answers, deploy decides whether
\* the rule is to be written
FetchStep(c, response) ==
  /\ stack[c] # << >>
  /\ Top(stack[c]).pc = "fetch"
  /\ LET f == Top(stack[c])
         sent == Event("fetchIndexingRules", f, Undefined, response, << >>)
     IN
     IF response # Ok
     THEN ThrowInDeploy(c, <<sent>>, <<response>>)
     ELSE /\ UNCHANGED result
          /\ IF needsRule(rules, f.deployment)
             THEN /\ log' = [log EXCEPT ![c] = @ \o <<sent>>]
                  /\ stack' = [stack EXCEPT ![c] = SetTop(@, [f EXCEPT !.pc = "upsert"])]
             ELSE /\ log' = [log EXCEPT ![c] =
                               @ \o <<sent, Event("return_deploy", f, Undefined, Ok, << >>)>>]
                  /\ stack' = [stack EXCEPT ![c] = SetTop(@, [f EXCEPT !.pc = "reassign"])]
  /\ UNCHANGED <<Config, rules, calls>>

\* deploy lines 143-149: upsertIndexingRule answers
UpsertStep(c, response) ==
  /\ stack[c] # << >>
  /\ Top(stack[c]).pc = "upsert"
  /\ LET f == Top(stack[c])
         existed == \E r \in rules : r.identifier = f.deployment
         sent == [Event("upsertIndexingRule", f, Undefined, response, << >>)
                    EXCEPT !.info = IF existed THEN "existing" ELSE "missing"]
     IN
     IF response # Ok
     THEN /\ ThrowInDeploy(c, <<sent>>, <<response>>)
          /\ UNCHANGED rules
     ELSE /\ rules' = upsertIndexingRule(rules, offchainIndexingRule(f.deployment))
          /\ log' = [log EXCEPT ![c] =
                       @ \o <<sent, Event("return_deploy", f, Undefined, Ok, << >>)>>]
          /\ stack' = [stack EXCEPT ![c] = SetTop(@, [f EXCEPT !.pc = "reassign"])]
          /\ UNCHANGED result
  /\ UNCHANGED <<Config, calls>>

\* ensure line 266, reassign lines 210-251: reassign selects the node (k is
\* the random index), sends subgraph_reassign and gets response
ReassignStep(c, k, response) ==
  /\ stack[c] # << >>
  /\ Top(stack[c]).pc = "reassign"
  /\ LET f == Top(stack[c])
         targetNode == selectNode(f.indexNode, indexNodeIDs, k)
         sent == Event("subgraph_reassign", f, targetNode, response, << >>)
         out == reassign(response)
     IN IF out.throws
        THEN ThrowInEnsure(c,
               <<sent, Event("throw_reassign", f, targetNode, response, out.err)>>,
               out.err)
        ELSE ReturnFromEnsure(c,
               <<sent, Event("return_reassign", f, targetNode, response, << >>)>>)
  /\ UNCHANGED <<Config, rules, calls>>

Next ==
  /\ UNCHANGED remote
  /\ \E c \in Callers :
       \/ \E n \in Names, d \in Deployments, node \in ExplicitNodes : Call(c, n, d, node)
       \/ \E r \in CreateResponses : CreateStep(c, r)
       \/ \E k \in RandomIndex(Len(indexNodeIDs)), r \in DeployResponses : DeployStep(c, k, r)
       \/ \E r \in StoreResponses : FetchStep(c, r)
       \/ \E r \in StoreResponses : UpsertStep(c, r)
       \/ \E k \in RandomIndex(Len(indexNodeIDs)), r \in ReassignResponses : ReassignStep(c, k, r)

Spec == Init /\ [][Next]_vars

---------------------------------------------------------------------------
\* Properties

Requests == {"subgraph_create", "subgraph_deploy", "subgraph_reassign"}

\* the deploy answer carries the graft-base signature
HasGraftSignature(r) ==
  r \in DeployRemoteErrors /\ Includes(Message(r), GraftSignature)

\* the deployment a well-formed graft-base answer names
NamedBase(r) == IF r = "E_graft_D1" THEN "D1" ELSE "D2"

\* positions of log[c] after i that belong to invocation inv
After(c, i, inv) == {j \in DOMAIN log[c] : j > i /\ log[c][j].inv = inv}

\* positions of log[c] where invocation inv starts a recursive ensure
Children(c, inv) ==
  {j \in DOMAIN log[c] : log[c][j].ev = "ensure" /\ log[c][j].parent = inv}

\* C1: when subgraph_create is answered with an error whose message contains
\* "already exists", createSubgraph returns normally and ensure goes on to
\* the deploy step; any other create error makes ensure fail.
C1_CreateIdempotent ==
  \A c \in Callers : \A i \in DOMAIN log[c] :
    LET e == log[c][i] IN
    (e.ev = "subgraph_create" /\ e.resp # Ok) =>
      /\ i + 1 \in DOMAIN log[c]
      /\ IF Includes(Message(e.resp), AlreadyExists)
         THEN /\ log[c][i + 1].ev = "return_createSubgraph"
              /\ \A j \in After(c, i, e.inv) :
                   log[c][j].ev = "throw_ensure" =>
                     \E k \in After(c, i, e.inv) :
                       k < j /\ log[c][k].ev = "subgraph_deploy"
         ELSE /\ log[c][i + 1].ev = "throw_createSubgraph"
              /\ i + 2 \in DOMAIN log[c]
              /\ log[c][i + 2].ev = "throw_ensure"
              /\ log[c][i + 2].inv = e.inv

\* C2: a deploy answer with the graft-base signature, received by an ensure
\* invocation at depth >= autoGraftResolverDepth, makes that invocation fail
\* at once: it starts no recursive ensure and sends no further deploy and no
\* reassign request; and no ensure invocation runs deeper than
\* autoGraftResolverDepth.
C2_DepthCeiling ==
  \A c \in Callers :
    /\ \A i \in DOMAIN log[c] :
         LET e == log[c][i] IN
         (/\ e.ev = "subgraph_deploy"
          /\ HasGraftSignature(e.resp)
          /\ e.depth >= autoGraftResolverDepth) =>
           /\ i + 2 \in DOMAIN log[c]
           /\ log[c][i + 1].ev = "throw_deploy" /\ log[c][i + 1].inv = e.inv
           /\ log[c][i + 2].ev = "throw_ensure" /\ log[c][i + 2].inv = e.inv
           /\ Children(c, e.inv) = {}
           /\ \A j \in After(c, i, e.inv) : log[c][j].ev \notin Requests
    /\ \A i \in DOMAIN log[c] : log[c][i].depth <= autoGraftResolverDepth
    /\ \A i \in DOMAIN stack[c] : stack[c][i].depth <= autoGraftResolverDepth

\* a recursive ensure at depth autoGraftResolverDepth >= 1 got the
\* graft-base answer and the whole call failed
C2_Witness ==
  \E c \in Callers : \E i \in DOMAIN log[c] :
    /\ log[c][i].ev = "subgraph_deploy"
    /\ HasGraftSignature(log[c][i].resp)
    /\ log[c][i].depth = autoGraftResolverDepth
    /\ log[c][i].depth >= 1
    /\ result[c].state = "thrown"

\* C3: a graft-base answer naming B, received at depth d below
\* autoGraftResolverDepth, starts one recursive ensure for B at depth d + 1,
\* at once; the original deployment is ensured again only after that
\* recursive ensure returned, at depth d, and no other recursive ensure is
\* started by the invocation.
C3_OneRecursiveEnsureThenRetry ==
  \A c \in Callers : \A i \in DOMAIN log[c] :
    LET e == log[c][i] IN
    (/\ e.ev = "subgraph_deploy"
     /\ e.resp \in {"E_graft_D1", "E_graft_D2"}
     /\ e.depth < autoGraftResolverDepth) =>
      /\ i + 1 \in Children(c, e.inv)
      /\ log[c][i + 1].dep = NamedBase(e.resp)
      /\ log[c][i + 1].depth = e.depth + 1
      /\ Cardinality(Children(c, e.inv)) <= 2
      /\ \A j \in Children(c, e.inv) \ {i + 1} :
           /\ j > i + 1
           /\ log[c][j].dep = e.dep
           /\ log[c][j].depth = e.depth
           /\ log[c][j - 1].ev = "return_ensure"
           /\ log[c][j - 1].inv = log[c][i + 1].inv

\* the original deployment is being ensured again after the recursive ensure
\* of its graft base returned
C3_Witness ==
  \E c \in Callers : \E i \in DOMAIN log[c] :
    /\ log[c][i].ev = "subgraph_deploy"
    /\ log[c][i].resp \in {"E_graft_D1", "E_graft_D2"}
    /\ Cardinality(Children(c, log[c][i].inv)) = 2

\* C4: once the recursive ensure of the graft base has returned, the deploy
\* that started it ends by throwing the IE069 error, whatever the second
\* attempt on the original deployment does; it neither returns nor throws an
\* error of another code.
C4_AlwaysGraftRetryRequired ==
  \A c \in Callers : \A i \in DOMAIN log[c] :
    LET e == log[c][i] IN
    (e.ev = "return_ensure" /\ e.role = "base") =>
      \A j \in After(c, i, e.parent) :
        /\ log[c][j].ev # "return_deploy"
        /\ (log[c][j].ev = "throw_deploy" => Head(log[c][j].err) = "IE069")

\* C5: every error answer to subgraph_reassign, the "unchanged" one
\* included, is thrown by reassign, and the ensure invocation that called
\* reassign then fails.
C5_ReassignPropagates ==
  \A c \in Callers : \A i \in DOMAIN log[c] :
    LET e == log[c][i] IN
    (e.ev = "subgraph_reassign" /\ e.resp # Ok) =>
      /\ i + 2 \in DOMAIN log[c]
      /\ log[c][i + 1].ev = "throw_reassign" /\ log[c][i + 1].inv = e.inv
      /\ log[c][i + 1].err[Len(log[c][i + 1].err)] = e.resp
      /\ (e.resp = "E_unchanged" => log[c][i + 1].err = <<e.resp>>)
      /\ log[c][i + 2].ev = "throw_ensure" /\ log[c][i + 2].inv = e.inv
      /\ result[c].state = "thrown"

\* create and deploy succeeded, subgraph_reassign was answered "unchanged",
\* and the call failed with that error
C5_Witness ==
  \E c \in Callers : \E i \in DOMAIN log[c] :
    /\ log[c][i].ev = "subgraph_reassign"
    /\ log[c][i].resp = "E_unchanged"
    /\ log[c][i - 1].ev = "return_deploy"
    /\ log[c][i - 1].inv = log[c][i].inv
    /\ result[c] = Thrown(<<"E_unchanged">>)

\* C6: the error an ensure invocation throws is always the IE020 error
\* built around the error of the step that failed.
C6_UmbrellaError ==
  \A c \in Callers :
    /\ \A i \in DOMAIN log[c] :
         log[c][i].ev = "throw_ensure" =>
           /\ Len(log[c][i].err) >= 2
           /\ Head(log[c][i].err) = "IE020"
    /\ result[c].state = "thrown" => Head(result[c].err) = "IE020"

\* C7: deploy writes the rule store only when it holds no record for the
\* deployment, and right after a deploy that found none the store holds one
\* record for it, of type deployment and decision basis offchain.
C7_InsertIfMissing ==
  \A c \in Callers : \A i \in DOMAIN log[c] :
    LET e == log[c][i] IN
    (e.ev = "upsertIndexingRule") =>
      /\ e.info = "missing"
      /\ (i + 1 = Len(log[c]) /\ log[c][i + 1].ev = "return_deploy") =>
           {r \in rules : r.identifier = e.dep} = {offchainIndexingRule(e.dep)}

\* C8: a record the rule store holds is never changed or removed by ensure.
C8_NeverOverwrites ==
  [][\A r \in rules : r \in rules']_vars

\* C9: the node id of a subgraph_deploy or subgraph_reassign request is the
\* indexNode argument when one is given, in the pool or not, and a member of
\* a non-empty pool when none is given.
C9_NodeSelection ==
  \A c \in Callers : \A i \in DOMAIN log[c] :
    LET e == log[c][i] IN
    (e.ev \in {"subgraph_deploy", "subgraph_reassign"}) =>
      /\ e.explicit # Undefined => e.node = e.explicit
      /\ (e.explicit = Undefined /\ indexNodeIDs # << >>) =>
           \E k \in DOMAIN indexNodeIDs : e.node = indexNodeIDs[k]

\* without an indexNode argument and with the pool nodeA, nodeB, one request
\* of the call went to nodeA and another to nodeB
C9_Witness ==
  \E c \in Callers : \E i, j \in DOMAIN log[c] :
    /\ indexNodeIDs = <<"nodeA", "nodeB">>
    /\ log[c][i].ev = "subgraph_deploy" /\ log[c][j].ev = "subgraph_reassign"
    /\ log[c][i].explicit = Undefined /\ log[c][j].explicit = Undefined
    /\ log[c][i].node = "nodeA" /\ log[c][j].node = "nodeB"

\* C10: with no indexNode argument and an empty pool no subgraph_deploy and
\* no subgraph_reassign request is sent, and none carries an undefined node
\* id.
C10_EmptyPoolSendsNothing ==
  \A c \in Callers : \A i \in DOMAIN log[c] :
    LET e == log[c][i] IN
    (e.ev \in {"subgraph_deploy", "subgraph_reassign"}) =>
      /\ ~(e.explicit = Undefined /\ indexNodeIDs = << >>)
      /\ e.node # Undefined

\* C13: the number of ensure invocations one top-level call causes is
\* bounded by a function of autoGraftResolverDepth alone: one recursive
\* ensure and one retry per level of depth, 2 * autoGraftResolverDepth + 1
\* invocations at most.
C13_WorkBoundedByDepth ==
  \A c \in Callers :
    Cardinality({i \in DOMAIN log[c] : log[c][i].ev = "ensure"})
      <= 2 * autoGraftResolverDepth + 1

\* C14: once the recursive ensure of the graft base has returned, the
\* invocation that started it sends one more subgraph_deploy for the
\* original deployment and nothing else: no subgraph_create, no
\* subgraph_reassign and no further ensure follows.
C14_RetryIsOneDeploy ==
  \A c \in Callers : \A i \in DOMAIN log[c] :
    LET e == log[c][i]
        later == {j \in DOMAIN log[c] : j > i}
    IN
    (e.ev = "return_ensure" /\ e.role = "base") =>
      /\ \A j \in later :
           /\ log[c][j].ev \notin {"ensure", "subgraph_create", "subgraph_reassign"}
           /\ log[c][j].ev = "subgraph_deploy" => log[c][j].inv = e.parent
      /\ Cardinality({j \in later : log[c][j].ev = "subgraph_deploy"}) <= 1

\* C15: within one ensure invocation subgraph_deploy is sent only after
\* createSubgraph returned, the rule is written only after subgraph_deploy
\* was answered without error, and subgraph_reassign is sent only after
\* deploy returned; an invocation whose subgraph_deploy was rejected or
\* answered with an error writes no rule and sends no reassign.
C15_StepOrder ==
  \A c \in Callers : \A i \in DOMAIN log[c] :
    LET e == log[c][i]
        before(ev) == {k \in 1..(i - 1) : log[c][k].inv = e.inv /\ log[c][k].ev = ev}
        mine(ev) == {k \in DOMAIN log[c] : log[c][k].inv = e.inv /\ log[c][k].ev = ev}
    IN
    /\ e.ev = "subgraph_deploy" => before("return_createSubgraph") # {}
    /\ e.ev = "upsertIndexingRule" =>
         \E k \in before("subgraph_deploy") : log[c][k].resp = Ok
    /\ e.ev = "subgraph_reassign" =>
         /\ before("return_deploy") # {}
         /\ before("fetchIndexingRules") # {}
    /\ (e.ev = "subgraph_deploy" /\ e.resp # Ok) =>
         /\ mine("upsertIndexingRule") = {}
         /\ mine("subgraph_reassign") = {}
         /\ mine("return_deploy") = {}

\* an invocation went through create, deploy, rule write and reassign, and
\* another one of the same call had its subgraph_deploy answered with an error
C15_Witness ==
  \E c \in Callers : \E i, j \in DOMAIN log[c] :
    /\ log[c][i].ev = "subgraph_reassign"
    /\ \E k \in 1..(i - 1) :
         /\ log[c][k].ev = "upsertIndexingRule"
         /\ log[c][k].inv = log[c][i].inv
         /\ log[c][k].resp = Ok
    /\ log[c][j].ev = "subgraph_deploy"
    /\ log[c][j].resp = "E_deploy"

\* C16: the node id of an invocation's subgraph_reassign request is the node
\* id of its successful subgraph_deploy request.
C16_ReassignToDeployNode ==
  \A c \in Callers : \A i, j \in DOMAIN log[c] :
    (/\ log[c][i].ev = "subgraph_deploy" /\ log[c][i].resp = Ok
     /\ log[c][j].ev = "subgraph_reassign"
     /\ log[c][i].inv = log[c][j].inv) =>
      log[c][j].node = log[c][i].node

\* C17: when subgraph_deploy is not answered in time, deploy throws IE026
\* built on the timeout, the invocation starts no recursive ensure and
\* writes no rule, and its ensure fails.
C17_TimeoutIsPlainFailure ==
  \A c \in Callers : \A i \in DOMAIN log[c] :
    LET e == log[c][i] IN
    (e.ev = "subgraph_deploy" /\ e.resp \in DeployRejections) =>
      /\ i + 2 \in DOMAIN log[c]
      /\ log[c][i + 1].ev = "throw_deploy" /\ log[c][i + 1].inv = e.inv
      /\ log[c][i + 1].err = <<"IE026", e.resp>>
      /\ log[c][i + 2].ev = "throw_ensure" /\ log[c][i + 2].inv = e.inv
      /\ Children(c, e.inv) = {}
      /\ \A j \in DOMAIN log[c] :
           log[c][j].inv = e.inv => log[c][j].ev # "upsertIndexingRule"
      /\ result[c].state = "thrown"

\* with autoGraftResolverDepth >= 1 a recursive ensure, below the depth
\* limit, had its subgraph_deploy time out
C17_Witness ==
  \E c \in Callers : \E i \in DOMAIN log[c] :
    /\ log[c][i].ev = "subgraph_deploy"
    /\ log[c][i].resp = "E_timeout"
    /\ log[c][i].depth >= 1
    /\ log[c][i].depth < autoGraftResolverDepth
    /\ result[c].state = "thrown"

\* deploy answers whose message has the signature and no well-formed token
MalformedGraft == {"E_graft_bad", "E_graft_trunc", "E_graft_char"}

\* the 46 characters that follow the signature and ": " in a message
TokenAfterSignature(r) ==
  SubSeq(Message(r), Len(GraftSignature) + 3, Len(GraftSignature) + 2 + TokenLen)

\* C20: below the depth limit, a deploy error message with the graft-base
\* signature and a well-formed 46-character token makes the recursive ensure
\* run for exactly the deployment whose hash is that token; a message
\* without the signature, and a message whose token is missing, truncated
\* or malformed, start no recursive ensure and end the deploy with IE026.
C20_GraftBaseExtraction ==
  \A c \in Callers : \A i \in DOMAIN log[c] :
    LET e == log[c][i] IN
    (e.ev = "subgraph_deploy" /\ e.resp \in DeployRemoteErrors) =>
      /\ (e.resp \in {"E_graft_D1", "E_graft_D2"} /\ e.depth < autoGraftResolverDepth) =>
           /\ i + 1 \in Children(c, e.inv)
           /\ Len(TokenAfterSignature(e.resp)) = TokenLen
           /\ ipfsHash(log[c][i + 1].dep) = TokenAfterSignature(e.resp)
      /\ (e.resp \in MalformedGraft \/ ~Includes(Message(e.resp), GraftSignature)) =>
           /\ Children(c, e.inv) = {}
           /\ i + 2 \in DOMAIN log[c]
           /\ log[c][i + 1].ev = "throw_deploy" /\ log[c][i + 1].inv = e.inv
           /\ Head(log[c][i + 1].err) = "IE026"
           /\ log[c][i + 2].ev = "throw_ensure" /\ log[c][i + 2].inv = e.inv
           /\ result[c].state = "thrown"
      /\ ~Includes(Message(e.resp), GraftSignature) =>
           log[c][i + 1].err = <<"IE026", "IE026", e.resp>>

\* a graft-base answer naming D2 started the recursive ensure of D2, and that
\* ensure, still below the depth limit, got an answer with a truncated token
C20_Witness ==
  \E c \in Callers : \E i, j \in DOMAIN log[c] :
    /\ log[c][i].ev = "subgraph_deploy" /\ log[c][i].resp = "E_graft_D2"
    /\ log[c][i + 1].ev = "ensure" /\ log[c][i + 1].dep = "D2"
    /\ log[c][j].ev = "subgraph_deploy" /\ log[c][j].resp = "E_graft_trunc"
    /\ log[c][j].depth < autoGraftResolverDepth
    /\ result[c].state = "thrown"

---------------------------------------------------------------------------
\* remove

\* node_id of the subgraph_reassign request that unassigns a deployment
Removed == "removed"

\* a catch block of remove that rethrows
removeCatchRethrow(error) == Throws(indexerError("IE027", error))

\* catch block of remove: builds the IE027 error for the log and returns
removeCatch(error) == Returns

\* a destroy without its where clause
destroyEvery(store, d) == {}

\* models.IndexingRule.destroy({ where: { identifier: deployment.ipfsHash } })
destroy(store, d) == {r \in store : r.identifier # d}

\* models.IndexingRule.findOne({ where: { identifier: deployment.ipfsHash } })
findOne(store, d) == \E r \in store : r.identifier = d

\* remove ends, after events evs, the way out says
EndRemove(c, evs, out) ==
  LET f == Top(stack[c]) IN
  /\ stack' = [stack EXCEPT ![c] = << >>]
  /\ IF out.throws
     THEN /\ log' = [log EXCEPT ![c] =
                       @ \o evs \o <<Event("throw_remove", f, Undefined, Ok, out.err)>>]
          /\ result' = [result EXCEPT ![c] = Thrown(out.err)]
     ELSE /\ log' = [log EXCEPT ![c] =
                       @ \o evs \o <<Event("return_remove", f, Undefined, Ok, << >>)>>]
          /\ result' = [result EXCEPT ![c] = Returned]

\* a caller invokes remove(logger, models, deployment)
RemoveCall(c, d) ==
  /\ stack[c] = << >>
  /\ calls[c] < MaxCalls
  /\ LET f == [Frame(1, 0, "remove", Undefined, d, Undefined, 0)
                 EXCEPT !.pc = "remove_reassign"]
     IN /\ stack' = [stack EXCEPT ![c] = <<f>>]
        /\ log' = [log EXCEPT ![c] = <<Event("remove", f, Undefined, Ok, << >>)>>]
  /\ result' = [result EXCEPT ![c] = Running]
  /\ calls' = [calls EXCEPT ![c] = @ + 1]
  /\ UNCHANGED <<Config, rules>>

\* remove lines 170-179: subgraph_reassign to the node "removed" is answered
RemoveReassignStep(c, response) ==
  /\ stack[c] # << >>
  /\ Top(stack[c]).pc = "remove_reassign"
  /\ LET f == Top(stack[c])
         sent == Event("subgraph_reassign", f, Removed, response, << >>)
     IN IF response # Ok
        THEN EndRemove(c, <<sent>>, removeCatch(<<response>>))
        ELSE /\ log' = [log EXCEPT ![c] = @ \o <<sent>>]
             /\ stack' = [stack EXCEPT ![c] = SetTop(@, [f EXCEPT !.pc = "remove_find"])]
             /\ UNCHANGED result
  /\ UNCHANGED <<Config, rules, calls>>

\* remove lines 181-185: findOne is answered
RemoveFindStep(c, response) ==
  /\ stack[c] # << >>
  /\ Top(stack[c]).pc = "remove_find"
  /\ LET f == Top(stack[c])
         sent == Event("findOne", f, Undefined, response, << >>)
     IN IF response # Ok
        THEN EndRemove(c, <<sent>>, removeCatch(<<response>>))
        ELSE IF findOne(rules, f.deployment)
        THEN /\ log' = [log EXCEPT ![c] = @ \o <<sent>>]
             /\ stack' = [stack EXCEPT ![c] = SetTop(@, [f EXCEPT !.pc = "remove_destroy"])]
             /\ UNCHANGED result
        ELSE EndRemove(c, <<sent>>, Returns)
  /\ UNCHANGED <<Config, rules, calls>>

\* remove lines 189-194: destroy is answered
RemoveDestroyStep(c, response) ==
  /\ stack[c] # << >>
  /\ Top(stack[c]).pc = "remove_destroy"
  /\ LET f == Top(stack[c])
         sent == Event("destroy", f, Undefined, response, << >>)
     IN IF response # Ok
        THEN /\ EndRemove(c, <<sent>>, removeCatch(<<response>>))
             /\ UNCHANGED rules
        ELSE /\ rules' = destroy(rules, f.deployment)
             /\ EndRemove(c, <<sent>>, Returns)
  /\ UNCHANGED <<Config, calls>>

NextRemove ==
  \/ Next
  \/ /\ UNCHANGED remote
     /\ \E c \in Callers :
          \/ \E d \in Deployments : RemoveCall(c, d)
          \/ \E r \in ReassignResponses : RemoveReassignStep(c, r)
          \/ \E r \in StoreResponses : RemoveFindStep(c, r)
          \/ \E r \in StoreResponses : RemoveDestroyStep(c, r)

\* ensure and remove calls of one caller
SpecRemove == Init /\ [][NextRemove]_vars

\* the running or last call of caller c is a remove
IsRemove(c) == log[c] # << >> /\ log[c][1].ev = "remove"

\* the answers remove got to the request or store call ev
RemoveAnswers(c, ev) ==
  {log[c][i].resp : i \in {j \in DOMAIN log[c] : log[c][j].ev = ev}}

\* C11: remove never throws: whatever subgraph_reassign, findOne and destroy
\* answer, the call ends by returning.
C11_RemoveNeverRaises ==
  \A c \in Callers :
    IsRemove(c) =>
      /\ result[c].state \in {"running", "returned"}
      /\ \A i \in DOMAIN log[c] : log[c][i].ev # "throw_remove"
      /\ (stack[c] = << >> => result[c].state = "returned")

\* a remove returned although one of its three calls was answered with an
\* error
C11_Witness ==
  \E c \in Callers :
    /\ IsRemove(c)
    /\ result[c].state = "returned"
    /\ \E i \in DOMAIN log[c] :
         log[c][i].ev \in {"subgraph_reassign", "findOne", "destroy"} /\ log[c][i].resp # Ok

\* a step of a remove call changes the rule store only after its
\* subgraph_reassign to "removed" was answered without error, and then only
\* by deleting records of its deployment
RemoveTouchesOnlyItsRecord ==
  \A c \in Callers :
    (IsRemove(c) /\ stack[c] # << >> /\ stack'[c] # stack[c]) =>
      /\ \A r \in rules : r.identifier # log[c][1].dep => r \in rules'
      /\ \A r \in rules' : r \in rules
      /\ rules' # rules =>
           /\ RemoveAnswers(c, "subgraph_reassign") = {Ok}
           /\ \A i \in DOMAIN log[c] :
                log[c][i].ev = "subgraph_reassign" => log[c][i].node = Removed

\* C12 as stated: remove changes the store only after a successful unassign
\* and only in records of its deployment, and a remove whose unassign
\* succeeded leaves no record of its deployment.
C12_DeleteAfterUnassign ==
  /\ [][RemoveTouchesOnlyItsRecord]_vars
  /\ [](\A c \in Callers :
          (/\ IsRemove(c)
           /\ result[c].state = "returned"
           /\ RemoveAnswers(c, "subgraph_reassign") = {Ok}) =>
            ~findOne(rules, log[c][1].dep))

\* C12, amended: remove changes the store only after a successful unassign
\* and only in records of its deployment, and a remove whose unassign
\* succeeded and whose findOne and destroy were not answered with an error
\* leaves no record of its deployment.
C12_DeleteAfterUnassignAmended ==
  /\ [][RemoveTouchesOnlyItsRecord]_vars
  /\ [](\A c \in Callers :
          (/\ IsRemove(c)
           /\ result[c].state = "returned"
           /\ RemoveAnswers(c, "subgraph_reassign") = {Ok}
           /\ RemoveAnswers(c, "findOne") = {Ok}
           /\ RemoveAnswers(c, "destroy") \subseteq {Ok}) =>
            ~findOne(rules, log[c][1].dep))

\* a remove deleted the record of its deployment and left the record of the
\* other deployment in the store
C12_Witness ==
  \E c \in Callers :
    /\ IsRemove(c)
    /\ result[c].state = "returned"
    /\ RemoveAnswers(c, "destroy") = {Ok}
    /\ ~findOne(rules, log[c][1].dep)
    /\ rules # {}

---------------------------------------------------------------------------
\* A node-management endpoint that behaves faithfully, and a caller that
\* invokes ensure again after each failure

\* the deployment d grafts onto, Undefined when it has no graft base
GraftBaseOf(d) == IF d = "D1" THEN "D2" ELSE Undefined

\* the graft-base answer that names deployment b
GraftError(b) == IF b = "D1" THEN "E_graft_D1" ELSE "E_graft_D2"

\* subgraph_create: a registered name is answered "already exists"
faithfulCreate(rm, name) == IF name \in rm.names THEN "E_exists" ELSE Ok

\* subgraph_deploy: the graft-base error exactly when the base is not deployed
faithfulDeploy(rm, d) ==
  IF GraftBaseOf(d) # Undefined /\ GraftBaseOf(d) \notin rm.deployed
  THEN GraftError(GraftBaseOf(d))
  ELSE Ok

\* subgraph_reassign: succeeds for a new node, "unchanged" for the same one
faithfulReassign(rm, d, node) ==
  IF d \notin rm.deployed THEN "E_reassign"
  ELSE IF rm.node[d] = node THEN "E_unchanged"
  ELSE Ok

InitFaithful ==
  /\ remote = EmptyRemote
  /\ indexNodeIDs \in Pools \ {<< >>}
  /\ autoGraftResolverDepth \in 1..MaxDepth
  /\ rules \in InitialRules
  /\ stack = [c \in Callers |-> << >>]
  /\ log = [c \in Callers |-> << >>]
  /\ result = [c \in Callers |-> Idle]
  /\ calls = [c \in Callers |-> 0]

\* the first call of a caller
FaithfulCall(c, name, d, indexNode) ==
  /\ result[c] = Idle
  /\ Call(c, name, d, indexNode)
  /\ UNCHANGED remote

\* the caller invokes ensure again, with the arguments of the failed call
Reinvoke(c) ==
  /\ stack[c] = << >>
  /\ result[c].state = "thrown"
  /\ LET f == Frame(1, 0, "top", log[c][1].name, log[c][1].dep,
                    log[c][1].explicit, 0)
     IN /\ stack' = [stack EXCEPT ![c] = <<f>>]
        /\ log' = [log EXCEPT ![c] = <<Event("ensure", f, Undefined, Ok, << >>)>>]
  /\ result' = [result EXCEPT ![c] = Running]
  /\ UNCHANGED <<Config, rules, calls, remote>>

FaithfulCreate(c) ==
  /\ stack[c] # << >>
  /\ LET name == Top(stack[c]).name IN
       /\ CreateStep(c, faithfulCreate(remote, name))
       /\ remote' = [remote EXCEPT !.names = @ \cup {name}]

FaithfulDeploy(c, k) ==
  /\ stack[c] # << >>
  /\ LET f == Top(stack[c])
         response == faithfulDeploy(remote, f.deployment)
         targetNode == selectNode(f.indexNode, indexNodeIDs, k)
     IN /\ DeployStep(c, k, response)
        /\ remote' =
             IF response = Ok
             THEN [remote EXCEPT
                     !.deployed = @ \cup {f.deployment},
                     !.node[f.deployment] =
                        IF f.deployment \in remote.deployed THEN @ ELSE targetNode]
             ELSE remote

FaithfulFetch(c) == FetchStep(c, Ok) /\ UNCHANGED remote

FaithfulUpsert(c) == UpsertStep(c, Ok) /\ UNCHANGED remote

FaithfulReassign(c, k) ==
  /\ stack[c] # << >>
  /\ LET f == Top(stack[c])
         targetNode == selectNode(f.indexNode, indexNodeIDs, k)
         response == faithfulReassign(remote, f.deployment, targetNode)
     IN /\ ReassignStep(c, k, response)
        /\ remote' =
             IF response = Ok
             THEN [remote EXCEPT !.node[f.deployment] = targetNode]
             ELSE remote

NextFaithful ==
  \E c \in Callers :
    \/ \E n \in Names, d \in Deployments, node \in ExplicitNodes :
         FaithfulCall(c, n, d, node)
    \/ Reinvoke(c)
    \/ FaithfulCreate(c)
    \/ \E k \in RandomIndex(Len(indexNodeIDs)) : FaithfulDeploy(c, k)
    \/ FaithfulFetch(c)
    \/ FaithfulUpsert(c)
    \/ \E k \in RandomIndex(Len(indexNodeIDs)) : FaithfulReassign(c, k)

\* every started call runs on, and a failed call is invoked again
SpecFaithful == InitFaithful /\ [][NextFaithful]_vars /\ WF_vars(NextFaithful)

\* d and the deployment it grafts onto are deployed and d has its rule
Converged(d) ==
  /\ d \in remote.deployed
  /\ GraftBaseOf(d) # Undefined => GraftBaseOf(d) \in remote.deployed
  /\ findOne(rules, d)

\* C18: against the faithful endpoint, with autoGraftResolverDepth at least
\* the length of the graft chain, a caller that invokes ensure(name, d, node)
\* again after each failure eventually has d and its graft base deployed and
\* the rule of d in the store.
C18_RetryConverges ==
  \A d \in Deployments :
    (\E c \in Callers :
       log[c] # << >> /\ log[c][1].ev = "ensure" /\ log[c][1].dep = d)
    ~> Converged(d)

---------------------------------------------------------------------------
\* Two callers, each with one top-level ensure call, interleaved at the
\* awaits

ConcCallers == {1, 2}

\* largest autoGraftResolverDepth of the two-caller runs
MaxDepthConc == 1

\* ensure invocations one top-level call of a two-caller run may start
MaxInvConc == 2

\* the name and the deployment caller c ensures
ConcName(c) == IF c = 1 THEN "n1" ELSE "n2"
ConcDeployment(c) == IF c = 1 THEN "D1" ELSE "D2"

\* the rule store before the two calls
ConcInitialRules == {}

InitConc ==
  /\ remote = EmptyRemote
  /\ indexNodeIDs = <<"nodeA", "nodeB">>
  /\ autoGraftResolverDepth \in 0..MaxDepthConc
  /\ rules = ConcInitialRules
  /\ stack = [c \in ConcCallers |-> << >>]
  /\ log = [c \in ConcCallers |-> << >>]
  /\ result = [c \in ConcCallers |-> Idle]
  /\ calls = [c \in ConcCallers |-> 0]

NextConc ==
  /\ UNCHANGED remote
  /\ \E c \in ConcCallers :
       /\ \/ \E node \in {Undefined, "nodeA"} :
               calls[c] = 0 /\ Call(c, ConcName(c), ConcDeployment(c), node)
          \/ \E r \in CreateResponses : CreateStep(c, r)
          \/ \E k \in RandomIndex(Len(indexNodeIDs)), r \in DeployResponses :
               DeployStep(c, k, r)
          \/ \E r \in StoreResponses : FetchStep(c, r)
          \/ \E r \in StoreResponses : UpsertStep(c, r)
          \/ \E k \in RandomIndex(Len(indexNodeIDs)), r \in ReassignResponses :
               ReassignStep(c, k, r)
       /\ NextInv(log'[c]) <= MaxInvConc + 1

SpecConc == InitConc /\ [][NextConc]_vars

\* the other caller
Other(c) == IF c = 1 THEN 2 ELSE 1

RECURSIVE OwnStore(_, _)
\* the rule store as the first n entries of log[c] alone make it
OwnStore(c, n) ==
  IF n = 0 THEN ConcInitialRules
  ELSE LET e == log[c][n] IN
       IF e.ev = "upsertIndexingRule" /\ e.resp = Ok
       THEN upsertIndexingRule(OwnStore(c, n - 1), offchainIndexingRule(e.dep))
       ELSE OwnStore(c, n - 1)

\* a step that changes what caller c holds leaves the other caller's stack,
\* log and result as they are, and no step removes a record from the store
ConcFrame ==
  /\ \A c \in ConcCallers :
       (stack'[c] # stack[c] \/ log'[c] # log[c] \/ result'[c] # result[c]) =>
         /\ stack'[Other(c)] = stack[Other(c)]
         /\ log'[Other(c)] = log[Other(c)]
         /\ result'[Other(c)] = result[Other(c)]
  /\ \A r \in rules : \E q \in rules' : q.identifier = r.identifier

\* what a call of caller c does next never depends on what the other call
\* wrote: a call that reads the store decides as it would on the store its
\* own writes alone make, it runs at the depths and under the name and
\* deployment it would alone, and a deployment it deployed and wrote the
\* rule of has one record
ConcSameAsAlone ==
  \A c \in ConcCallers :
    /\ \A i \in DOMAIN stack[c] :
         stack[c][i].pc = "fetch" =>
           needsRule(rules, stack[c][i].deployment)
             = needsRule(OwnStore(c, Len(log[c])), stack[c][i].deployment)
    /\ \A i \in DOMAIN log[c] :
         /\ log[c][i].name = ConcName(c)
         /\ log[c][i].depth <= autoGraftResolverDepth
         /\ (log[c][i].ev = "upsertIndexingRule" /\ log[c][i].resp = Ok) =>
              Cardinality({r \in rules : r.identifier = log[c][i].dep}) = 1

\* caller c writes no record of the deployment the other caller ensures
NoForeignWrite(c) ==
  \A i \in DOMAIN log[c] :
    log[c][i].ev = "upsertIndexingRule" => log[c][i].dep # ConcDeployment(Other(c))

\* caller c writes a record of the deployment the other caller ensures only
\* in the recursive ensure of a graft base a deploy answer named
NoForeignWriteButGraftBase(c) ==
  \A i \in DOMAIN log[c] :
    (log[c][i].ev = "upsertIndexingRule" /\ log[c][i].dep = ConcDeployment(Other(c))) =>
      /\ log[c][i].role = "base"
      /\ \E k \in 1..(i - 1) :
           /\ log[c][k].ev = "subgraph_deploy"
           /\ log[c][k].inv = log[c][i].parent
           /\ log[c][k].resp = GraftError(log[c][i].dep)

\* C19 as stated: two concurrent ensure calls on different deployments and
\* names do not disturb each other, neither writes or deletes a record of
\* the other's deployment, and a deployed deployment has one record.
C19_CallsIndependent ==
  /\ [][ConcFrame]_vars
  /\ [](ConcSameAsAlone /\ \A c \in ConcCallers : NoForeignWrite(c))

\* C19, amended: as stated, except that a call writes the record of the
\* other call's deployment when a deploy answer names that deployment as
\* graft base and the call ensures it recursively.
C19_CallsIndependentAmended ==
  /\ [][ConcFrame]_vars
  /\ [](ConcSameAsAlone /\ \A c \in ConcCallers : NoForeignWriteButGraftBase(c))

\* both calls are past their deploy: caller 1 wrote the rule of D2 in the
\* recursive ensure of its graft base while caller 2, interleaved with it,
\* wrote the rule of D2 as well, and the store holds one record of D2
C19_Witness ==
  /\ \E i \in DOMAIN log[1] :
       /\ log[1][i].ev = "upsertIndexingRule" /\ log[1][i].resp = Ok
       /\ log[1][i].dep = "D2"
  /\ \E i \in DOMAIN log[2] :
       /\ log[2][i].ev = "upsertIndexingRule" /\ log[2][i].resp = Ok
       /\ log[2][i].dep = "D2"
       /\ log[2][i].info = "missing"
  /\ Len(log[1]) > 1 /\ stack[1] # << >> /\ stack[2] # << >>
  /\ Cardinality({r \in rules : r.identifier = "D2"}) = 1

====
